---- MODULE Spec2Model ----
(***************************************************************************)
(* The outgoing-message adapter of fetch-to-node-broken/http-server.ts:    *)
(* FetchServerResponse (header state, writeHead, the informational         *)
(* writes), the bridge its constructor builds around the fetchResponse     *)
(* promise, and the entry points toReqRes / toFetchResponse.               *)
(*                                                                         *)
(* JavaScript values are tagged records [t, v]; a string is the sequence   *)
(* of its UTF-16 code units, a Buffer / Uint8Array the sequence of its     *)
(* bytes.  An operation is an operator from the message (a record of its   *)
(* fields, the closure variables of the bridge and the listener table) to  *)
(* the message after the call; `thrown` holds the error the call raises.   *)
(* Event listeners run synchronously inside emit, in registration order,   *)
(* and an error thrown by a listener propagates to the caller of emit.     *)
(*                                                                         *)
(* FetchOutgoingMessage (http-outgoing.ts) is not part of the sources at   *)
(* hand: setHeader / appendHeader / removeHeader, _storeHeader, _send,     *)
(* _writeRaw, write and end are modelled from the specification            *)
(* (sections 4.1, 4.2, 7) and are marked so where they are defined.        *)
(* Response, Headers and ReadableStream are the platform's: they are       *)
(* modelled as the plain containers the source uses them as.               *)
(***************************************************************************)
EXTENDS Integers, Sequences, FiniteSets, TLC

\* ------------------------------------------------------------------ bounds

\* The most data-written entries one message may produce.
MaxEntries == 2

\* The most informational writes (100 Continue, 102 Processing) on one message.
MaxInformational == 1

\* The most values appendHeader is let to gather under one header name.
MaxHeaderValues == 2

\* ------------------------------------------------------- JavaScript values

Undefined == [t |-> "undefined", v |-> <<>>]
Null == [t |-> "null", v |-> <<>>]
Str(s) == [t |-> "string", v |-> s]
Bin(b) == [t |-> "binary", v |-> b]
\* A number given as a write payload (its value plays no part).
NumberPayload == [t |-> "number", v |-> <<>>]

IsString(x) == x.t = "string"
\* JavaScript truthiness of a string-or-undefined value: "" and undefined are falsy.
Truthy(x) == x.t = "string" /\ x.v # <<>>

\* The errors the operations raise.
NoError == "none"
ERR_HTTP_HEADERS_SENT == "ERR_HTTP_HEADERS_SENT"
ERR_HTTP_INVALID_STATUS_CODE == "ERR_HTTP_INVALID_STATUS_CODE"
ERR_INVALID_ARG_TYPE == "ERR_INVALID_ARG_TYPE"
ERR_INVALID_ARG_VALUE == "ERR_INVALID_ARG_VALUE"
ERR_INVALID_CHAR == "ERR_INVALID_CHAR"
\* The TypeError of a ReadableStream controller used after its stream was
\* cancelled or closed.
TypeErrorInvalidState == "TypeError: Invalid state"
\* The Error toFetchResponse throws (lines 508-510).
UsageError == "Error: toFetchResponse must be called on a ServerResponse generated by toReqRes"

\* ------------------------------------------------------------- characters

RECURSIVE Flatten(_)
Flatten(ss) == IF ss = <<>> THEN <<>> ELSE Head(ss) \o Flatten(Tail(ss))

\* headerCharRegex = /[^\t\x20-\x7e\x80-\xff]/ : the code units it matches.
ForbiddenChar(c) == ~(c = 9 \/ (c >= 32 /\ c <= 126) \/ (c >= 128 /\ c <= 255))

checkInvalidHeaderChar(val) == \E i \in 1..Len(val) : ForbiddenChar(val[i])

\* TextEncoder.encode of one code unit (no surrogates in the model's alphabet).
Utf8OfChar(c) ==
  IF c < 128 THEN <<c>>
  ELSE IF c < 2048 THEN <<192 + (c \div 64), 128 + (c % 64)>>
  ELSE <<224 + (c \div 4096), 128 + ((c \div 64) % 64), 128 + (c % 64)>>

Utf8Encode(s) == Flatten([i \in 1..Len(s) |-> Utf8OfChar(s[i])])

\* Buffer.from(s, "latin1"): one byte per code unit, its low eight bits.
Latin1Encode(s) == [i \in 1..Len(s) |-> s[i] % 256]

\* String.prototype.slice(n) for n >= 0.
Slice(s, n) == IF n >= Len(s) THEN <<>> ELSE SubSeq(s, n + 1, Len(s))

\* The decimal digits of a status code, as code units.
RECURSIVE Digits(_)
Digits(n) == IF n < 10 THEN <<48 + n>> ELSE Digits(n \div 10) \o <<48 + (n % 10)>>

\* STATUS_CODES: the reason phrase of a status code, undefined when the table
\* has no entry.
STATUS_CODES(code) ==
  CASE code = 100 -> Str(<<67, 111, 110, 116, 105, 110, 117, 101>>) \* Continue
    [] code = 101 -> Str(<<83, 119, 105, 116, 99, 104, 105, 110, 103, 32, 80, 114, 111, 116, 111, 99, 111, 108, 115>>) \* Switching Protocols
    [] code = 102 -> Str(<<80, 114, 111, 99, 101, 115, 115, 105, 110, 103>>) \* Processing
    [] code = 103 -> Str(<<69, 97, 114, 108, 121, 32, 72, 105, 110, 116, 115>>) \* Early Hints
    [] code = 200 -> Str(<<79, 75>>) \* OK
    [] code = 201 -> Str(<<67, 114, 101, 97, 116, 101, 100>>) \* Created
    [] code = 202 -> Str(<<65, 99, 99, 101, 112, 116, 101, 100>>) \* Accepted
    [] code = 203 -> Str(<<78, 111, 110, 45, 65, 117, 116, 104, 111, 114, 105, 116, 97, 116, 105, 118, 101, 32, 73, 110, 102, 111, 114, 109, 97, 116, 105, 111, 110>>) \* Non-Authoritative Information
    [] code = 204 -> Str(<<78, 111, 32, 67, 111, 110, 116, 101, 110, 116>>) \* No Content
    [] code = 205 -> Str(<<82, 101, 115, 101, 116, 32, 67, 111, 110, 116, 101, 110, 116>>) \* Reset Content
    [] code = 206 -> Str(<<80, 97, 114, 116, 105, 97, 108, 32, 67, 111, 110, 116, 101, 110, 116>>) \* Partial Content
    [] code = 207 -> Str(<<77, 117, 108, 116, 105, 45, 83, 116, 97, 116, 117, 115>>) \* Multi-Status
    [] code = 208 -> Str(<<65, 108, 114, 101, 97, 100, 121, 32, 82, 101, 112, 111, 114, 116, 101, 100>>) \* Already Reported
    [] code = 226 -> Str(<<73, 77, 32, 85, 115, 101, 100>>) \* IM Used
    [] code = 300 -> Str(<<77, 117, 108, 116, 105, 112, 108, 101, 32, 67, 104, 111, 105, 99, 101, 115>>) \* Multiple Choices
    [] code = 301 -> Str(<<77, 111, 118, 101, 100, 32, 80, 101, 114, 109, 97, 110, 101, 110, 116, 108, 121>>) \* Moved Permanently
    [] code = 302 -> Str(<<70, 111, 117, 110, 100>>) \* Found
    [] code = 303 -> Str(<<83, 101, 101, 32, 79, 116, 104, 101, 114>>) \* See Other
    [] code = 304 -> Str(<<78, 111, 116, 32, 77, 111, 100, 105, 102, 105, 101, 100>>) \* Not Modified
    [] code = 305 -> Str(<<85, 115, 101, 32, 80, 114, 111, 120, 121>>) \* Use Proxy
    [] code = 307 -> Str(<<84, 101, 109, 112, 111, 114, 97, 114, 121, 32, 82, 101, 100, 105, 114, 101, 99, 116>>) \* Temporary Redirect
    [] code = 308 -> Str(<<80, 101, 114, 109, 97, 110, 101, 110, 116, 32, 82, 101, 100, 105, 114, 101, 99, 116>>) \* Permanent Redirect
    [] code = 400 -> Str(<<66, 97, 100, 32, 82, 101, 113, 117, 101, 115, 116>>) \* Bad Request
    [] code = 401 -> Str(<<85, 110, 97, 117, 116, 104, 111, 114, 105, 122, 101, 100>>) \* Unauthorized
    [] code = 402 -> Str(<<80, 97, 121, 109, 101, 110, 116, 32, 82, 101, 113, 117, 105, 114, 101, 100>>) \* Payment Required
    [] code = 403 -> Str(<<70, 111, 114, 98, 105, 100, 100, 101, 110>>) \* Forbidden
    [] code = 404 -> Str(<<78, 111, 116, 32, 70, 111, 117, 110, 100>>) \* Not Found
    [] code = 405 -> Str(<<77, 101, 116, 104, 111, 100, 32, 78, 111, 116, 32, 65, 108, 108, 111, 119, 101, 100>>) \* Method Not Allowed
    [] code = 406 -> Str(<<78, 111, 116, 32, 65, 99, 99, 101, 112, 116, 97, 98, 108, 101>>) \* Not Acceptable
    [] code = 407 -> Str(<<80, 114, 111, 120, 121, 32, 65, 117, 116, 104, 101, 110, 116, 105, 99, 97, 116, 105, 111, 110, 32, 82, 101, 113, 117, 105, 114, 101, 100>>) \* Proxy Authentication Required
    [] code = 408 -> Str(<<82, 101, 113, 117, 101, 115, 116, 32, 84, 105, 109, 101, 111, 117, 116>>) \* Request Timeout
    [] code = 409 -> Str(<<67, 111, 110, 102, 108, 105, 99, 116>>) \* Conflict
    [] code = 410 -> Str(<<71, 111, 110, 101>>) \* Gone
    [] code = 411 -> Str(<<76, 101, 110, 103, 116, 104, 32, 82, 101, 113, 117, 105, 114, 101, 100>>) \* Length Required
    [] code = 412 -> Str(<<80, 114, 101, 99, 111, 110, 100, 105, 116, 105, 111, 110, 32, 70, 97, 105, 108, 101, 100>>) \* Precondition Failed
    [] code = 413 -> Str(<<80, 97, 121, 108, 111, 97, 100, 32, 84, 111, 111, 32, 76, 97, 114, 103, 101>>) \* Payload Too Large
    [] code = 414 -> Str(<<85, 82, 73, 32, 84, 111, 111, 32, 76, 111, 110, 103>>) \* URI Too Long
    [] code = 415 -> Str(<<85, 110, 115, 117, 112, 112, 111, 114, 116, 101, 100, 32, 77, 101, 100, 105, 97, 32, 84, 121, 112, 101>>) \* Unsupported Media Type
    [] code = 416 -> Str(<<82, 97, 110, 103, 101, 32, 78, 111, 116, 32, 83, 97, 116, 105, 115, 102, 105, 97, 98, 108, 101>>) \* Range Not Satisfiable
    [] code = 417 -> Str(<<69, 120, 112, 101, 99, 116, 97, 116, 105, 111, 110, 32, 70, 97, 105, 108, 101, 100>>) \* Expectation Failed
    [] code = 418 -> Str(<<73, 39, 109, 32, 97, 32, 84, 101, 97, 112, 111, 116>>) \* I'm a Teapot
    [] code = 421 -> Str(<<77, 105, 115, 100, 105, 114, 101, 99, 116, 101, 100, 32, 82, 101, 113, 117, 101, 115, 116>>) \* Misdirected Request
    [] code = 422 -> Str(<<85, 110, 112, 114, 111, 99, 101, 115, 115, 97, 98, 108, 101, 32, 69, 110, 116, 105, 116, 121>>) \* Unprocessable Entity
    [] code = 423 -> Str(<<76, 111, 99, 107, 101, 100>>) \* Locked
    [] code = 424 -> Str(<<70, 97, 105, 108, 101, 100, 32, 68, 101, 112, 101, 110, 100, 101, 110, 99, 121>>) \* Failed Dependency
    [] code = 425 -> Str(<<84, 111, 111, 32, 69, 97, 114, 108, 121>>) \* Too Early
    [] code = 426 -> Str(<<85, 112, 103, 114, 97, 100, 101, 32, 82, 101, 113, 117, 105, 114, 101, 100>>) \* Upgrade Required
    [] code = 428 -> Str(<<80, 114, 101, 99, 111, 110, 100, 105, 116, 105, 111, 110, 32, 82, 101, 113, 117, 105, 114, 101, 100>>) \* Precondition Required
    [] code = 429 -> Str(<<84, 111, 111, 32, 77, 97, 110, 121, 32, 82, 101, 113, 117, 101, 115, 116, 115>>) \* Too Many Requests
    [] code = 431 -> Str(<<82, 101, 113, 117, 101, 115, 116, 32, 72, 101, 97, 100, 101, 114, 32, 70, 105, 101, 108, 100, 115, 32, 84, 111, 111, 32, 76, 97, 114, 103, 101>>) \* Request Header Fields Too Large
    [] code = 451 -> Str(<<85, 110, 97, 118, 97, 105, 108, 97, 98, 108, 101, 32, 70, 111, 114, 32, 76, 101, 103, 97, 108, 32, 82, 101, 97, 115, 111, 110, 115>>) \* Unavailable For Legal Reasons
    [] code = 500 -> Str(<<73, 110, 116, 101, 114, 110, 97, 108, 32, 83, 101, 114, 118, 101, 114, 32, 69, 114, 114, 111, 114>>) \* Internal Server Error
    [] code = 501 -> Str(<<78, 111, 116, 32, 73, 109, 112, 108, 101, 109, 101, 110, 116, 101, 100>>) \* Not Implemented
    [] code = 502 -> Str(<<66, 97, 100, 32, 71, 97, 116, 101, 119, 97, 121>>) \* Bad Gateway
    [] code = 503 -> Str(<<83, 101, 114, 118, 105, 99, 101, 32, 85, 110, 97, 118, 97, 105, 108, 97, 98, 108, 101>>) \* Service Unavailable
    [] code = 504 -> Str(<<71, 97, 116, 101, 119, 97, 121, 32, 84, 105, 109, 101, 111, 117, 116>>) \* Gateway Timeout
    [] code = 505 -> Str(<<72, 84, 84, 80, 32, 86, 101, 114, 115, 105, 111, 110, 32, 78, 111, 116, 32, 83, 117, 112, 112, 111, 114, 116, 101, 100>>) \* HTTP Version Not Supported
    [] code = 506 -> Str(<<86, 97, 114, 105, 97, 110, 116, 32, 65, 108, 115, 111, 32, 78, 101, 103, 111, 116, 105, 97, 116, 101, 115>>) \* Variant Also Negotiates
    [] code = 507 -> Str(<<73, 110, 115, 117, 102, 102, 105, 99, 105, 101, 110, 116, 32, 83, 116, 111, 114, 97, 103, 101>>) \* Insufficient Storage
    [] code = 508 -> Str(<<76, 111, 111, 112, 32, 68, 101, 116, 101, 99, 116, 101, 100>>) \* Loop Detected
    [] code = 509 -> Str(<<66, 97, 110, 100, 119, 105, 100, 116, 104, 32, 76, 105, 109, 105, 116, 32, 69, 120, 99, 101, 101, 100, 101, 100>>) \* Bandwidth Limit Exceeded
    [] code = 510 -> Str(<<78, 111, 116, 32, 69, 120, 116, 101, 110, 100, 101, 100>>) \* Not Extended
    [] code = 511 -> Str(<<78, 101, 116, 119, 111, 114, 107, 32, 65, 117, 116, 104, 101, 110, 116, 105, 99, 97, 116, 105, 111, 110, 32, 82, 101, 113, 117, 105, 114, 101, 100>>) \* Network Authentication Required
    [] OTHER -> Undefined

\* --------------------------------------------------------------- numbers

\* A JavaScript number given as a status code: a non-negative integer
\* hi * 2^32 + mid * 2^16 + lo, kept in 16-bit limbs so that values beyond 32
\* bits stay exact.
Num(hi, mid, lo) == [hi |-> hi, mid |-> mid, lo |-> lo]

\* statusCode |= 0 : ToInt32, the low 32 bits read as a signed integer.
ToInt32(n) ==
  IF n.mid >= 32768 THEN (n.mid - 65536) * 65536 + n.lo ELSE n.mid * 65536 + n.lo

\* The number is an integer of the inclusive interval [100, 999].
InStatusRange(n) == n.hi = 0 /\ n.mid = 0 /\ n.lo >= 100 /\ n.lo <= 999

\* ------------------------------------------------- the message, as a record

\* FetchServerResponse after its constructor has run for a request built by
\* toReqRes: toReqRes creates the response before it assigns incoming.method,
\* so the constructor reads the method the incoming message has at that time.
NoResponse == [status |-> 0, statusText |-> Undefined, headers |-> <<>>, body |-> "none"]

NewMessage(methodAtConstruction) ==
  [ statusCode |-> 200,
    statusMessage |-> Undefined,
    hasBody |-> ~(methodAtConstruction = Str(<<72, 69, 65, 68>>)),
    sent100 |-> FALSE,
    expectContinue |-> FALSE,
    shouldKeepAlive |-> TRUE,
    outHeaders |-> Null,
    header |-> Null,
    headerSent |-> FALSE,
    writtenHeaderBytes |-> 0,
    entries |-> 0,
    finished |-> FALSE,
    \* the constructor's closure (lines 168-195)
    bridgeFinished |-> FALSE,
    initialDataChunks |-> <<>>,
    initialHandlerOn |-> TRUE,
    promise |-> "pending",
    response |-> NoResponse,
    \* the ReadableStream and the closure of its start() (lines 420-444)
    streamListening |-> FALSE,
    streamFinished |-> FALSE,
    queue |-> <<>>,
    closed |-> FALSE,
    cancelled |-> FALSE,
    \* the error the running call raises
    thrown |-> NoError,
    \* history: resolve() calls, _toFetchResponse calls, _headersSent events,
    \* whether a chunk failed to materialize while the promise was pending,
    \* and the informational writes made
    resolves |-> 0,
    builds |-> 0,
    headersSentEvents |-> 0,
    failedWhilePending |-> FALSE,
    informational |-> 0,
    closes |-> 0 ]

\* `x` evaluated once and handed to F: every operation below reads the message
\* it is given many times, and a call is a chain of such operations.
Bind(x, F(_)) == CHOOSE r \in { F(v) : v \in {x} } : TRUE

Throw(m, err) ==
  [m EXCEPT !.thrown = err,
            !.failedWhilePending = @ \/ (err = ERR_INVALID_ARG_TYPE /\ m.promise = "pending")]

\* ---------------------------------------------------- the bridge (source)

\* Buffer.from(data, encoding) for the encodings the model writes with
\* ("latin1", "ascii"): one byte per code unit.
BufferFrom(s, encoding) == Latin1Encode(s)

\* Variant of dataFromDataWrittenEvent that keeps the header-sized prefix of
\* the entry at index 0 (sensitivity of C6 to the slice).
dataFromDataWrittenEventKeepingPrefix(m, e) ==
  IF e.index = 0 /\ ~IsString(e.data)
  THEN [thrown |-> ERR_INVALID_ARG_TYPE, data |-> Undefined]
  ELSE [thrown |-> NoError,
        data |-> IF IsString(e.data)
                 THEN IF e.encoding \in {"undefined", "utf8", "utf-8"}
                      THEN Bin(Utf8Encode(e.data.v))
                      ELSE Bin(BufferFrom(e.data.v, e.encoding))
                 ELSE e.data]

\* dataFromDataWrittenEvent (lines 198-228): the bytes of an entry, or the
\* error it throws.
dataFromDataWrittenEvent(m, e) ==
  IF e.index = 0 /\ ~IsString(e.data)
  THEN [thrown |-> ERR_INVALID_ARG_TYPE, data |-> Undefined]
  ELSE Bind(IF e.index = 0 THEN Str(Slice(e.data.v, m.writtenHeaderBytes)) ELSE e.data,
            LAMBDA data :
       Bind(IF IsString(data)
            THEN IF e.encoding \in {"undefined", "utf8", "utf-8"}
                 THEN Bin(Utf8Encode(data.v))
                 ELSE Bin(BufferFrom(data.v, e.encoding))
            ELSE data,
            LAMBDA bytes :
       [thrown |-> NoError,
        data |-> IF bytes \in {Undefined, Null} THEN Bin(<<>>) ELSE bytes]))

\* initialDataChunks[index] = data on a JavaScript array: the slots between
\* the old length and index stay holes (read back as undefined).
ArraySet(a, index, data) ==
  [i \in 1..(IF index + 1 > Len(a) THEN index + 1 ELSE Len(a)) |->
     IF i = index + 1 THEN data ELSE IF i <= Len(a) THEN a[i] ELSE Undefined]

\* Variant of initialDataWrittenHandler that catches the error of
\* dataFromDataWrittenEvent and drops the chunk (sensitivity of C2 to the
\* handler letting the error through).
initialDataWrittenHandlerCatching(m, e) ==
  IF m.bridgeFinished THEN m
  ELSE Bind(dataFromDataWrittenEvent(m, e), LAMBDA r :
       IF r.thrown # NoError THEN m
       ELSE [m EXCEPT !.initialDataChunks = ArraySet(@, e.index, r.data)])

\* initialDataWrittenHandler (lines 174-179).
initialDataWrittenHandler(m, e) ==
  IF m.bridgeFinished THEN m
  ELSE Bind(dataFromDataWrittenEvent(m, e), LAMBDA r :
       IF r.thrown # NoError THEN Throw(m, r.thrown)
       ELSE [m EXCEPT !.initialDataChunks = ArraySet(@, e.index, r.data)])

\* controller.enqueue(data) (lines 424, 439): the chunk joins the queue of a
\* readable stream; on a stream that was cancelled the controller throws.
enqueue(m, data) ==
  IF m.cancelled THEN Throw(m, TypeErrorInvalidState)
  ELSE [m EXCEPT !.queue = Append(@, data)]

\* controller.close() (lines 428, 432): closes a readable stream; on a stream
\* that was cancelled the controller throws.
close(m) ==
  IF m.cancelled THEN Throw(m, TypeErrorInvalidState)
  ELSE [m EXCEPT !.closed = TRUE, !.closes = @ + 1]

\* Variant of the forwarding listener without its `if (finished) return`
\* (sensitivity of C15 to it).
forwardDataWrittenHandlerAfterFinish(m, e) ==
  Bind(dataFromDataWrittenEvent(m, e), LAMBDA r :
  IF r.thrown # NoError THEN Throw(m, r.thrown)
  ELSE enqueue(m, r.data))

\* The "_dataWritten" listener that start() registers (lines 434-440).
forwardDataWrittenHandler(m, e) ==
  IF m.streamFinished THEN m
  ELSE Bind(dataFromDataWrittenEvent(m, e), LAMBDA r :
       IF r.thrown # NoError THEN Throw(m, r.thrown)
       ELSE enqueue(m, r.data))

\* The "finish" listener of the constructor (lines 170-172).
bridgeFinishHandler(m) == [m EXCEPT !.bridgeFinished = TRUE]

\* Variant of the stream's "finish" listener that records the finish but does
\* not close the controller (sensitivity of C10 to controller.close()).
streamFinishHandlerNotClosing(m) == [m EXCEPT !.streamFinished = TRUE]

\* The "finish" listener that start() registers (lines 430-433).
streamFinishHandler(m) == close([m EXCEPT !.streamFinished = TRUE])

\* Variant of _toFetchResponse that builds the Response without statusText
\* (sensitivity of C4 to the reason phrase being handed on).
toFetchResponseOfNoStatusText(m, status, statusText, sentHeaders, initialDataChunks, finished) ==
  [m |-> IF ~m.hasBody THEN [m EXCEPT !.builds = @ + 1]
         ELSE [m EXCEPT !.builds = @ + 1,
                        !.queue = initialDataChunks,
                        !.closed = finished,
                        !.closes = IF finished THEN @ + 1 ELSE @,
                        !.streamFinished = finished,
                        !.streamListening = ~finished],
   value |-> [status |-> status, statusText |-> Undefined,
              headers |-> sentHeaders,
              body |-> IF m.hasBody THEN "stream" ELSE "null"]]

\* _toFetchResponse (lines 407-451): the Response, and the message with the
\* stream started.  start() runs inside the ReadableStream constructor.
toFetchResponseOf(m, status, statusText, sentHeaders, initialDataChunks, finished) ==
  [m |-> IF ~m.hasBody THEN [m EXCEPT !.builds = @ + 1]
         ELSE [m EXCEPT !.builds = @ + 1,
                        !.queue = initialDataChunks,
                        !.closed = finished,
                        !.closes = IF finished THEN @ + 1 ELSE @,
                        !.streamFinished = finished,
                        !.streamListening = ~finished],
   value |-> [status |-> status, statusText |-> statusText,
              headers |-> sentHeaders,
              body |-> IF m.hasBody THEN "stream" ELSE "null"]]

\* resolve() of the fetchResponse promise: only the first call settles it.
resolve(m, value) ==
  [m EXCEPT !.resolves = @ + 1,
            !.promise = "fulfilled",
            !.response = IF m.promise = "pending" THEN value ELSE @]

\* Variant of the "_headersSent" listener that removes the buffering handler
\* but never calls resolve (sensitivity of C3 to the resolve at headers-sent).
headersSentHandlerNotResolving(m, e) == [m EXCEPT !.initialHandlerOn = FALSE]

\* The "_headersSent" listener of the constructor (lines 181-194).
headersSentHandler(m, e) ==
  Bind([m EXCEPT !.initialHandlerOn = FALSE], LAMBDA off :
  Bind(toFetchResponseOf(off, e.statusCode, e.statusMessage, e.headers,
                         off.initialDataChunks, off.bridgeFinished),
       LAMBDA built : resolve(built.m, built.value)))

\* EventEmitter.emit: the listeners in registration order, each to completion;
\* a listener that throws ends the emit.
emitDataWritten(m, e) ==
  Bind(IF m.initialHandlerOn THEN initialDataWrittenHandler(m, e) ELSE m, LAMBDA m1 :
  IF m1.thrown # NoError THEN m1
  ELSE IF m1.streamListening THEN forwardDataWrittenHandler(m1, e) ELSE m1)

emitHeadersSent(m, e) ==
  Bind([m EXCEPT !.headersSentEvents = @ + 1], LAMBDA m1 : headersSentHandler(m1, e))

emitFinish(m) ==
  Bind(bridgeFinishHandler(m), LAMBDA m1 :
  IF m1.streamListening THEN streamFinishHandler(m1) ELSE m1)

\* ------------------------------- FetchOutgoingMessage (from the specification)

\* The (name, value) pairs of a header collection, in wire order.  A collection
\* is the object or the flat array given to writeHead, or the message's own
\* kOutHeaders (one entry per name, holding every value of the name).
HeaderPairs(headers) ==
  CASE headers.t = "object" -> headers.v
    [] headers.t = "array" ->
         [i \in 1..(Len(headers.v) \div 2) |-> <<headers.v[2 * i - 1], headers.v[2 * i]>>]
    [] headers.t = "outHeaders" ->
         Flatten([i \in 1..Len(headers.v) |->
                    [j \in 1..Len(headers.v[i].values) |->
                       <<headers.v[i].name, headers.v[i].values[j]>>]])
    [] OTHER -> <<>>

OutHeaders(entries) == [t |-> "outHeaders", v |-> entries]

HasHeader(m, name) ==
  m.outHeaders # Null /\ \E i \in 1..Len(m.outHeaders.v) : m.outHeaders.v[i].name = name

\* The entries of kOutHeaders with those of `name` replaced by `values`, in
\* place when the name is present and at the end when it is not.
WithHeader(m, name, values) ==
  IF HasHeader(m, name)
  THEN [i \in 1..Len(m.outHeaders.v) |->
          IF m.outHeaders.v[i].name = name
          THEN [name |-> name, values |-> values] ELSE m.outHeaders.v[i]]
  ELSE (IF m.outHeaders = Null THEN <<>> ELSE m.outHeaders.v)
         \o <<[name |-> name, values |-> values]>>

ValuesOf(m, name) ==
  IF HasHeader(m, name)
  THEN (CHOOSE e \in {m.outHeaders.v[i] : i \in 1..Len(m.outHeaders.v)} : e.name = name).values
  ELSE <<>>

\* setHeader: valid only while headers are mutable; the value is validated.
setHeader(m, name, value) ==
  IF m.header # Null THEN Throw(m, ERR_HTTP_HEADERS_SENT)
  ELSE IF checkInvalidHeaderChar(value) THEN Throw(m, ERR_INVALID_CHAR)
  ELSE [m EXCEPT !.outHeaders = OutHeaders(WithHeader(m, name, <<value>>))]

\* appendHeader: adds a value without removing the ones the name has.
appendHeader(m, name, value) ==
  IF m.header # Null THEN Throw(m, ERR_HTTP_HEADERS_SENT)
  ELSE IF checkInvalidHeaderChar(value) THEN Throw(m, ERR_INVALID_CHAR)
  ELSE [m EXCEPT !.outHeaders =
          OutHeaders(WithHeader(m, name, Append(ValuesOf(m, name), value)))]

\* removeHeader: valid only while headers are mutable.
removeHeader(m, name) ==
  IF m.header # Null THEN Throw(m, ERR_HTTP_HEADERS_SENT)
  ELSE IF m.outHeaders = Null THEN m
  ELSE [m EXCEPT !.outHeaders =
          OutHeaders(SelectSeq(m.outHeaders.v, LAMBDA e : e.name # name))]

\* _writeRaw: the entry takes the next index of the written-data buffer and
\* the "data written" event is delivered before the call returns.
writeRaw(m, data, encoding) ==
  Bind([m EXCEPT !.entries = @ + 1], LAMBDA m1 :
  Bind([index |-> m.entries, data |-> data, encoding |-> encoding], LAMBDA e :
  emitDataWritten(m1, e)))

\* _send: the first data sent carries the header block, joined to it when it
\* is text in a byte-per-unit or UTF-8 encoding, as an entry of its own
\* otherwise.
send(m, data, encoding) ==
  IF m.headerSent THEN writeRaw(m, data, encoding)
  ELSE Bind([m EXCEPT !.headerSent = TRUE], LAMBDA m1 :
       IF IsString(data) /\ encoding \in {"undefined", "utf8", "latin1"}
       THEN writeRaw(m1, Str(m.header.v \o data.v), encoding)
       ELSE Bind(writeRaw(m1, m.header, "latin1"), LAMBDA m2 :
            IF m2.thrown # NoError THEN m2 ELSE writeRaw(m2, data, encoding)))

\* The header block: the status line, one line per pair, an empty line.
CRLF == <<13, 10>>

HeaderBlock(statusLine, pairs) ==
  statusLine
    \o Flatten([i \in 1..Len(pairs) |-> pairs[i][1] \o <<58, 32>> \o pairs[i][2] \o CRLF])
    \o CRLF

\* _storeHeader: validates the collection, computes the header block, makes
\* the headers immutable and emits the one HeaderSentEvent.
storeHeader(m, statusLine, headers) ==
  IF headers.t = "array" /\ Len(headers.v) % 2 # 0 THEN Throw(m, ERR_INVALID_ARG_VALUE)
  ELSE Bind(HeaderPairs(headers), LAMBDA pairs :
       IF \E i \in 1..Len(pairs) : checkInvalidHeaderChar(pairs[i][2])
       THEN Throw(m, ERR_INVALID_CHAR)
       ELSE Bind(HeaderBlock(statusLine, pairs), LAMBDA header :
            Bind([m EXCEPT !.header = Str(header),
                           !.headerSent = FALSE,
                           !.writtenHeaderBytes = Len(header)],
                 LAMBDA m1 :
            emitHeadersSent(m1, [statusCode |-> m.statusCode,
                                 statusMessage |-> m.statusMessage,
                                 headers |-> pairs]))))

\* ------------------------------------------- FetchServerResponse (source)

RECURSIVE SetAll(_, _)
\* for each key k of obj: if (k) this.setHeader(k, obj[k])  (lines 345-353)
SetAll(m, pairs) ==
  IF pairs = <<>> \/ m.thrown # NoError THEN m
  ELSE Bind(IF Head(pairs)[1] # <<>>
            THEN setHeader(m, Head(pairs)[1], Head(pairs)[2]) ELSE m,
            LAMBDA m1 : SetAll(m1, Tail(pairs)))

RECURSIVE RemoveAll(_, _)
\* for each key k of the array: this.removeHeader(String(k))  (lines 333-336)
RemoveAll(m, pairs) ==
  IF pairs = <<>> \/ m.thrown # NoError THEN m
  ELSE Bind(removeHeader(m, Head(pairs)[1]), LAMBDA m1 : RemoveAll(m1, Tail(pairs)))

RECURSIVE AppendAll(_, _)
\* for each key k of the array: if (k) this.appendHeader(String(k), value)
\* (lines 338-343)
AppendAll(m, pairs) ==
  IF pairs = <<>> \/ m.thrown # NoError THEN m
  ELSE Bind(IF Head(pairs)[1] # <<>>
            THEN appendHeader(m, Head(pairs)[1], Head(pairs)[2]) ELSE m,
            LAMBDA m1 : AppendAll(m1, Tail(pairs)))

\* The slow case of writeHead (lines 321-356): the progressive API was used
\* and header fields are passed.
MergeHeaders(m, obj) ==
  IF obj.t = "array"
  THEN IF Len(obj.v) % 2 # 0 THEN Throw(m, ERR_INVALID_ARG_VALUE)
       ELSE Bind(RemoveAll(m, HeaderPairs(obj)), LAMBDA m1 :
            AppendAll(m1, HeaderPairs(obj)))
  ELSE IF obj.t = "object" THEN SetAll(m, obj.v)
  ELSE m

\* `HTTP/1.1 ${statusCode} ${this.statusMessage}\r\n`  (line 366)
StatusLine(code, statusMessage) ==
  <<72, 84, 84, 80, 47, 49, 46, 49, 32>> \o Digits(code) \o <<32>> \o statusMessage \o CRLF

\* Variant of the no-body test that knows 204 only (sensitivity of C7 to the
\* 304 and 1xx branches).
NoBodyStatusOnly204(code) == code = 204

\* statusCode 204, 304 and 1xx carry no body (lines 368-384).
NoBodyStatus(code) == code = 204 \/ code = 304 \/ (code >= 100 /\ code <= 199)

Unknown == Str(<<117, 110, 107, 110, 111, 119, 110>>)

\* this.statusMessage ||= STATUS_CODES[statusCode] || "unknown"  (line 315)
DefaultedStatusMessage(current, code) ==
  IF Truthy(current) THEN current
  ELSE IF Truthy(STATUS_CODES(code)) THEN STATUS_CODES(code) ELSE Unknown

\* writeHead past its first check (lines 303-400): the status code is
\* truncated and range-checked, statusMessage and statusCode are assigned,
\* the header fields are merged or taken as given, the reason phrase is
\* validated, and _storeHeader is called.
writeHeadUnsent(m, statusCode, reason, obj) ==
  Bind(ToInt32(statusCode), LAMBDA code :
  IF code < 100 \/ code > 999 THEN Throw(m, ERR_HTTP_INVALID_STATUS_CODE)
  ELSE
  Bind([m EXCEPT !.statusMessage = IF IsString(reason) THEN reason
                                   ELSE DefaultedStatusMessage(@, code),
                 !.statusCode = code],
       LAMBDA m1 :
  Bind(IF m1.outHeaders # Null THEN MergeHeaders(m1, obj) ELSE m1, LAMBDA m2 :
  IF m2.thrown # NoError THEN m2
  ELSE IF checkInvalidHeaderChar(m2.statusMessage.v) THEN Throw(m2, ERR_INVALID_CHAR)
  ELSE
  Bind([m2 EXCEPT !.hasBody = IF NoBodyStatus(code) THEN FALSE ELSE @,
                  !.shouldKeepAlive =
                     IF m2.expectContinue /\ ~m2.sent100 THEN FALSE ELSE @],
       LAMBDA m3 :
  Bind(IF m1.outHeaders # Null THEN m3.outHeaders ELSE obj, LAMBDA headers :
  storeHeader(m3, StatusLine(code, m3.statusMessage.v),
              IF headers = Undefined THEN Null ELSE headers))))))

\* Variant of writeHead without the `if (this._header)` check (sensitivity of
\* C8 to it).
writeHeadWithoutHeaderCheck(m, statusCode, reason, obj) ==
  writeHeadUnsent(m, statusCode, reason, obj)

\* writeHead(statusCode, reason, obj) (lines 294-400).  `reason` is a string
\* or undefined; a header collection given in its place is given as `obj`.
writeHead(m, statusCode, reason, obj) ==
  IF m.header # Null THEN Throw(m, ERR_HTTP_HEADERS_SENT)
  ELSE writeHeadUnsent(m, statusCode, reason, obj)

\* Variant of _implicitHeader that sends nothing (sensitivity of C14 to the
\* headers being sent before the first data).
implicitHeaderSendingNothing(m) == m

\* _implicitHeader (lines 290-292): this.writeHead(this.statusCode).
implicitHeader(m) ==
  writeHead(m, Num(0, m.statusCode \div 65536, m.statusCode % 65536), Undefined, Undefined)

\* writeContinue (lines 248-251).
Continue100 ==
  <<72, 84, 84, 80, 47, 49, 46, 49, 32, 49, 48, 48, 32,
    67, 111, 110, 116, 105, 110, 117, 101>> \o CRLF \o CRLF

writeContinue(m) ==
  Bind(writeRaw([m EXCEPT !.informational = @ + 1], Str(Continue100), "ascii"),
       LAMBDA m1 :
  IF m1.thrown # NoError THEN m1 ELSE [m1 EXCEPT !.sent100 = TRUE])

\* writeProcessing (lines 253-255).
Processing102 ==
  <<72, 84, 84, 80, 47, 49, 46, 49, 32, 49, 48, 50, 32,
    80, 114, 111, 99, 101, 115, 115, 105, 110, 103>> \o CRLF \o CRLF

writeProcessing(m) ==
  writeRaw([m EXCEPT !.informational = @ + 1], Str(Processing102), "ascii")

\* validateLinkHeaderValue (utils/types.js, from the specification's
\* validation policy): a link value of the form <...> is returned as it is,
\* another one is refused.
ValidLink(s) ==
  /\ Len(s) >= 2 /\ s[1] = 60 /\ s[Len(s)] = 62
  /\ \A i \in 2..(Len(s) - 1) : s[i] \notin {60, 62}

\* "HTTP/1.1 103 Early Hints\r\n" and "Link: "
EarlyHints103 ==
  <<72, 84, 84, 80, 47, 49, 46, 49, 32, 49, 48, 51, 32,
    69, 97, 114, 108, 121, 32, 72, 105, 110, 116, 115>> \o CRLF

LinkField == <<76, 105, 110, 107, 58, 32>>

\* writeEarlyHints (lines 257-288), for hints that hold at most a link.
writeEarlyHints(m, hints) ==
  IF hints.link \in {Null, Undefined} THEN m
  ELSE IF ~ValidLink(hints.link.v) THEN Throw(m, ERR_INVALID_ARG_VALUE)
  ELSE IF Len(hints.link.v) = 0 THEN m
  ELSE writeRaw([m EXCEPT !.informational = @ + 1],
                Str(EarlyHints103 \o LinkField \o hints.link.v \o CRLF \o CRLF), "ascii")

\* ------------------------------- write and end (from the specification)

\* The bytes a body write stands for: text in its encoding, binary unchanged.
PayloadBytes(chunk, encoding) ==
  IF IsString(chunk)
  THEN IF encoding \in {"undefined", "utf8", "utf-8"}
       THEN Utf8Encode(chunk.v) ELSE Latin1Encode(chunk.v)
  ELSE chunk.v

\* write: a payload that is neither text nor binary fails at once; the first
\* write sends the headers implicitly; a message with no body discards the
\* payload; a write after end writes nothing.
write(m, chunk, encoding) ==
  IF chunk.t \notin {"string", "binary"} THEN Throw(m, ERR_INVALID_ARG_TYPE)
  ELSE IF m.finished THEN m
  ELSE Bind(IF m.header = Null THEN implicitHeader(m) ELSE m, LAMBDA m1 :
       IF m1.thrown # NoError \/ ~m1.hasBody THEN m1
       ELSE send(m1, chunk, encoding))

\* end: sends the headers if they are still unsent, flushes the (empty) last
\* data and signals "finish".
end(m) ==
  IF m.finished THEN m
  ELSE Bind(IF m.header = Null THEN implicitHeader(m) ELSE m, LAMBDA m1 :
       IF m1.thrown # NoError THEN m1
       ELSE Bind(send(m1, Str(<<>>), "latin1"), LAMBDA m2 :
            IF m2.thrown # NoError THEN m2
            ELSE emitFinish([m2 EXCEPT !.finished = TRUE])))

\* ------------------------------------------------------------------ inputs

\* Status codes given to writeHead: 99 and 1000 (just outside [100, 999]), 100
\* and 999 (its ends; 999 has no entry in the table), 200, the no-body codes
\* 204 and 304, and two numbers beyond 16 bits: 999999, whose low 32 bits are
\* itself, and 2^32 + 200, whose low 32 bits are 200.
StatusArgs ==
  { Num(0, 0, 99), Num(0, 0, 100), Num(0, 0, 200), Num(0, 0, 204), Num(0, 0, 304),
    Num(0, 0, 999), Num(0, 0, 1000), Num(0, 15, 16959), Num(1, 0, 200) }

\* Reason phrases: none, "Hi", and "B\n" (a forbidden unit).
Reasons == { Undefined, Str(<<72, 105>>), Str(<<66, 10>>) }

\* The header name "a"; the values "x" and "y\n" (a forbidden unit).
HeaderNames == { <<97>> }
HeaderValues == { <<120>>, <<121, 10>> }

\* Header collections given to writeHead: none, the object {a: "z"}, the
\* object {b: "x", a: "y\n"}, the flat array [b, x, b, z] (a repeated name)
\* and the flat array [a] (odd length).
HeaderArgs ==
  { Undefined,
    [t |-> "object", v |-> << <<(<<97>>), (<<122>>)>> >>],
    [t |-> "object", v |-> << <<(<<98>>), (<<120>>)>>, <<(<<97>>), (<<121, 10>>)>> >>],
    [t |-> "array", v |-> << (<<98>>), (<<120>>), (<<98>>), (<<122>>) >>],
    [t |-> "array", v |-> << (<<97>>) >>] }

\* The argument lists writeHead is called with: every status code alone; 200
\* with every reason phrase and header collection; 204 with a reason phrase
\* and each header collection.
WriteHeadArgs ==
  (StatusArgs \X {Undefined} \X {Undefined})
    \cup ({Num(0, 0, 200)} \X Reasons \X HeaderArgs)
    \cup ({Num(0, 0, 204)} \X {Str(<<72, 105>>)} \X HeaderArgs)

\* Body payloads with their encodings: the text "hé" (whose UTF-8 bytes are
\* not its code units), two bytes, and a number.
Payloads ==
  { <<Str(<<104, 233>>), "undefined">>, <<Bin(<<0, 255>>), "undefined">>,
    <<NumberPayload, "undefined">> }

\* The hints writeEarlyHints is called with: no link, and the link "<a>".
Hints == { [link |-> Undefined], [link |-> Str(<<60, 97, 62>>)] }

\* The request methods toReqRes is called with.
Methods == { Str(<<71, 69, 84>>), Str(<<72, 69, 65, 68>>) }

\* ------------------------------------------------------------------- state

VARIABLES
  res,            \* the fields of the FetchServerResponse
  bridge,         \* the closure of the constructor's promise executor
  fetchResponse,  \* the fetchResponse promise and the value it resolved with
  stream,         \* the ReadableStream of the response and start()'s closure
  hist,           \* history: counts of resolve / build / event, early failure
  lastError,      \* the error the last call on the message threw, if any
  bodyWrites,     \* history: the bytes of every body write that was sent
  phase           \* "running" while the producer may call, then "done"

vars == <<res, bridge, fetchResponse, stream, hist, lastError, bodyWrites, phase>>

\* The parts of a message record: one per state variable.
ResOf(m) ==
  [ statusCode |-> m.statusCode, statusMessage |-> m.statusMessage,
    hasBody |-> m.hasBody, sent100 |-> m.sent100,
    expectContinue |-> m.expectContinue,
    shouldKeepAlive |-> m.shouldKeepAlive, outHeaders |-> m.outHeaders,
    header |-> m.header, headerSent |-> m.headerSent,
    writtenHeaderBytes |-> m.writtenHeaderBytes, entries |-> m.entries,
    finished |-> m.finished ]

BridgeOf(m) ==
  [ bridgeFinished |-> m.bridgeFinished,
    initialDataChunks |-> m.initialDataChunks,
    initialHandlerOn |-> m.initialHandlerOn ]

PromiseOf(m) ==
  [ promise |-> m.promise, response |-> m.response ]

StreamOf(m) ==
  [ streamListening |-> m.streamListening,
    streamFinished |-> m.streamFinished, queue |-> m.queue,
    closed |-> m.closed, cancelled |-> m.cancelled ]

HistOf(m) ==
  [ resolves |-> m.resolves, builds |-> m.builds,
    headersSentEvents |-> m.headersSentEvents,
    failedWhilePending |-> m.failedWhilePending,
    informational |-> m.informational, closes |-> m.closes ]

\* The message a call starts from.
Msg ==
  [ statusCode |-> res.statusCode, statusMessage |-> res.statusMessage,
    hasBody |-> res.hasBody, sent100 |-> res.sent100,
    expectContinue |-> res.expectContinue,
    shouldKeepAlive |-> res.shouldKeepAlive,
    outHeaders |-> res.outHeaders, header |-> res.header,
    headerSent |-> res.headerSent,
    writtenHeaderBytes |-> res.writtenHeaderBytes,
    entries |-> res.entries, finished |-> res.finished,
    bridgeFinished |-> bridge.bridgeFinished,
    initialDataChunks |-> bridge.initialDataChunks,
    initialHandlerOn |-> bridge.initialHandlerOn,
    promise |-> fetchResponse.promise,
    response |-> fetchResponse.response,
    streamListening |-> stream.streamListening,
    streamFinished |-> stream.streamFinished, queue |-> stream.queue,
    closed |-> stream.closed, cancelled |-> stream.cancelled,
    resolves |-> hist.resolves, closes |-> hist.closes,
    builds |-> hist.builds, headersSentEvents |-> hist.headersSentEvents,
    failedWhilePending |-> hist.failedWhilePending,
    informational |-> hist.informational, thrown |-> NoError ]

\* The state after a call that left the message as m.
Becomes(m) ==
  /\ res' = ResOf(m)
  /\ bridge' = BridgeOf(m)
  /\ fetchResponse' = PromiseOf(m)
  /\ stream' = StreamOf(m)
  /\ hist' = HistOf(m)

\* What the caller of an operation observes: the error the call threw.
Called(m) == lastError' = m.thrown

\* toReqRes (lines 468-504): createServerResponse(incoming) runs before
\* incoming.method = req.method, so the constructor reads the method of a
\* fresh incoming message, which has none.
toReqRes(method) == NewMessage(Null)

\* What toFetchResponse is given: the response object of toReqRes, or an
\* object that is no FetchServerResponse.
ResponseObject(m) == [class |-> "FetchServerResponse", fetchResponse |-> PromiseOf(m)]
OtherObject == [class |-> "ServerResponse", fetchResponse |-> Undefined]

\* Variant of toFetchResponse without the instanceof check (sensitivity of
\* C13 to it).
toFetchResponseUnchecked(r) == [thrown |-> NoError, value |-> r.fetchResponse]

\* toFetchResponse (lines 506-514).
toFetchResponse(r) ==
  IF r.class # "FetchServerResponse"
  THEN [thrown |-> UsageError, value |-> Undefined]
  ELSE [thrown |-> NoError, value |-> r.fetchResponse]

Init ==
  /\ \E method \in Methods : \E m \in {toReqRes(method)} :
       /\ res = ResOf(m)
       /\ bridge = BridgeOf(m)
       /\ fetchResponse = PromiseOf(m)
       /\ stream = StreamOf(m)
       /\ hist = HistOf(m)
  /\ lastError = NoError
  /\ bodyWrites = <<>>
  /\ phase = "running"

\* ----------------------------------------------------------------- actions

SetHeader ==
  /\ phase = "running"
  /\ \E msg \in {Msg} : \E name \in HeaderNames, value \in HeaderValues :
       \E m \in {setHeader(msg, name, value)} :
         /\ Becomes(m)
         /\ Called(m)
  /\ UNCHANGED <<bodyWrites, phase>>

AppendHeader ==
  /\ phase = "running"
  /\ \E msg \in {Msg} : \E name \in HeaderNames, value \in HeaderValues :
       /\ Len(ValuesOf(msg, name)) < MaxHeaderValues
       /\ \E m \in {appendHeader(msg, name, value)} :
         /\ Becomes(m)
         /\ Called(m)
  /\ UNCHANGED <<bodyWrites, phase>>

RemoveHeader ==
  /\ phase = "running"
  /\ \E msg \in {Msg} : \E name \in HeaderNames :
       \E m \in {removeHeader(msg, name)} :
         /\ Becomes(m)
         /\ Called(m)
  /\ UNCHANGED <<bodyWrites, phase>>

\* Once the header block exists writeHead refuses every argument list before
\* it reads any (lines 299-301), so one list stands for all of them there.
WriteHead ==
  /\ phase = "running"
  /\ \E msg \in {Msg} :
     \E a \in (IF res.header = Null THEN WriteHeadArgs
               ELSE {<<Num(0, 0, 200), Undefined, Undefined>>}) :
       \E m \in {writeHead(msg, a[1], a[2], a[3])} :
         /\ Becomes(m)
         /\ Called(m)
  /\ UNCHANGED <<bodyWrites, phase>>

Write ==
  /\ phase = "running" /\ res.entries < MaxEntries
  /\ \E msg \in {Msg} : \E p \in Payloads :
       \E m \in {write(msg, p[1], p[2])} :
         /\ Becomes(m)
         /\ Called(m)
         /\ bodyWrites' = IF m.thrown = NoError /\ m.entries > res.entries
                          THEN Append(bodyWrites, PayloadBytes(p[1], p[2]))
                          ELSE bodyWrites
  /\ UNCHANGED phase

End ==
  /\ phase = "running" /\ res.entries <= MaxEntries + 1
  /\ \E m \in {end(Msg)} :
       /\ Becomes(m)
       /\ Called(m)
  /\ UNCHANGED <<bodyWrites, phase>>

WriteContinue ==
  /\ phase = "running" /\ res.entries < MaxEntries /\ hist.informational < MaxInformational
  /\ \E m \in {writeContinue(Msg)} :
       /\ Becomes(m)
       /\ Called(m)
  /\ UNCHANGED <<bodyWrites, phase>>

WriteProcessing ==
  /\ phase = "running" /\ res.entries < MaxEntries /\ hist.informational < MaxInformational
  /\ \E m \in {writeProcessing(Msg)} :
       /\ Becomes(m)
       /\ Called(m)
  /\ UNCHANGED <<bodyWrites, phase>>

WriteEarlyHints ==
  /\ phase = "running" /\ res.entries < MaxEntries /\ hist.informational < MaxInformational
  /\ \E msg \in {Msg} : \E hints \in Hints :
       \E m \in {writeEarlyHints(msg, hints)} :
         /\ Becomes(m)
         /\ Called(m)
  /\ UNCHANGED <<bodyWrites, phase>>

\* The request handler returns toFetchResponse(...) and makes no further call
\* on the message.
Done ==
  /\ phase = "running"
  /\ \E r \in {ResponseObject(Msg), OtherObject} :
       \E c \in {toFetchResponse(r)} :
         /\ lastError' = c.thrown
         /\ phase' = "done"
  /\ UNCHANGED <<res, bridge, fetchResponse, stream, hist, bodyWrites>>

\* The consumer of the response cancels its body: the ReadableStream is given
\* start() only (lines 420-444), so nothing of the message hears of it.
Cancel ==
  /\ phase = "running"
  /\ fetchResponse.promise = "fulfilled" /\ fetchResponse.response.body = "stream"
  /\ ~stream.closed /\ ~stream.cancelled
  /\ stream' = [stream EXCEPT !.cancelled = TRUE]
  /\ UNCHANGED <<res, bridge, fetchResponse, hist, lastError, bodyWrites, phase>>

Next ==
  \/ SetHeader \/ AppendHeader \/ RemoveHeader \/ WriteHead \/ Write \/ End
  \/ WriteContinue \/ WriteProcessing \/ WriteEarlyHints \/ Done

Spec == Init /\ [][Next]_vars

\* The same producer, with a consumer that may cancel the body.
NextWithCancel == Next \/ Cancel

SpecWithCancel == Init /\ [][NextWithCancel]_vars

\* ------------------------------------------------------------- properties

\* The bytes the body sequence has produced so far.
BodyBytes(queue) == Flatten([i \in 1..Len(queue) |-> queue[i].v])

\* No call has got past writeHead's checks and nothing was written: the
\* message is as the constructor left it but for the progressive headers.
Untouched == res.header = Null /\ res.entries = 0 /\ res.statusMessage = Undefined

\* A data-written entry at index 0 whose data is not text.
NonTextFirstEntries ==
  { [index |-> 0, data |-> d, encoding |-> "undefined"] : d \in {Bin(<<0, 255>>), NumberPayload} }

\* C1: if materializing a chunk failed while fetchResponse was pending, the
\* promise is settled in the end: once the producer has made its last call
\* it is not pending.  The code does not keep this: the executor has no
\* path that settles the promise on a failure.
C1_SettledOnceProducerIsDone ==
  (phase = "done" /\ hist.failedWhilePending) => fetchResponse.promise # "pending"

\* C2: a write of a payload that is neither text nor binary, as the first body
\* chunk with no prior writeHead, fails in the caller with
\* ERR_INVALID_ARG_TYPE and changes nothing; and the error
\* dataFromDataWrittenEvent raises for a non-text entry at index 0 comes out of
\* emit to the caller, the listeners absorbing none of it.
C2_InvalidPayloadFailsInCaller ==
  Untouched =>
    \E msg \in {Msg} :
      /\ \E m \in {write(msg, NumberPayload, "undefined")} :
           /\ m.thrown = ERR_INVALID_ARG_TYPE
           /\ ResOf(m) = res /\ PromiseOf(m) = fetchResponse
      /\ \A e \in NonTextFirstEntries :
           \E m \in {emitDataWritten(msg, e)} : m.thrown = ERR_INVALID_ARG_TYPE

\* C2 happens: the first call on the message was a write of a number and it
\* threw.
C2_Witness ==
  /\ lastError = ERR_INVALID_ARG_TYPE
  /\ Untouched /\ res.outHeaders = Null
  /\ fetchResponse.promise = "pending"

C5_BodyIsTheWrites ==
  (fetchResponse.promise = "fulfilled" /\ fetchResponse.response.body = "stream")
    => BodyBytes(stream.queue) = Flatten(bodyWrites)

\* C6: a first body write on a message on which neither writeHead nor an
\* informational write was called sends the headers with status 200 and the
\* headers set so far, and the body starts with the payload's first byte: it
\* is the payload's bytes.
C6_ImplicitHeaderOnFirstWrite ==
  Untouched =>
    \E msg \in {Msg} :
      \A p \in Payloads :
        \E m \in {write(msg, p[1], p[2])} :
          p[1] # NumberPayload =>
            /\ m.thrown = NoError
            /\ m.header # Null /\ m.promise = "fulfilled"
            /\ m.response.status = 200
            /\ m.response.headers = (IF res.outHeaders = Null THEN <<>>
                                     ELSE HeaderPairs(res.outHeaders))
            /\ BodyBytes(m.queue) = PayloadBytes(p[1], p[2])

\* C6 happens: setHeader("a", "x"), then the write of "hé" as the first write.
C6_Witness ==
  /\ fetchResponse.promise = "fulfilled" /\ hist.informational = 0
  /\ fetchResponse.response.status = 200
  /\ fetchResponse.response.headers = << <<(<<97>>), (<<120>>)>> >>
  /\ bodyWrites = << <<104, 195, 169>> >>
  /\ BodyBytes(stream.queue) = <<104, 195, 169>>

\* C7: a response resolved with status 204, 304 or 1xx has no body, and no
\* write, before or after, puts a byte in one.
C7_NoBodyStatuses ==
  ( /\ fetchResponse.promise = "fulfilled"
    /\ \/ fetchResponse.response.status \in {204, 304}
       \/ fetchResponse.response.status \in 100..199 )
    => /\ fetchResponse.response.body = "null"
       /\ stream.queue = <<>>
       /\ bodyWrites = <<>>

\* C7 happens: status 304, ended, after an informational write.
C7_Witness ==
  /\ fetchResponse.promise = "fulfilled"
  /\ fetchResponse.response.status = 304
  /\ fetchResponse.response.body = "null"
  /\ res.finished /\ hist.informational = 1

\* C8: once the header block exists, setHeader, appendHeader, removeHeader
\* and writeHead fail with ERR_HTTP_HEADERS_SENT and leave the message and
\* the resolved response as they were.
C8_HeadersSentRefusesMutation ==
  res.header # Null =>
    \E msg \in {Msg} :
      /\ fetchResponse.promise = "fulfilled"
      /\ \A name \in HeaderNames, value \in HeaderValues :
           /\ \E m \in {setHeader(msg, name, value)} :
                /\ m.thrown = ERR_HTTP_HEADERS_SENT
                /\ ResOf(m) = res /\ PromiseOf(m) = fetchResponse
           /\ \E m \in {appendHeader(msg, name, value)} :
                /\ m.thrown = ERR_HTTP_HEADERS_SENT
                /\ ResOf(m) = res /\ PromiseOf(m) = fetchResponse
           /\ \E m \in {removeHeader(msg, name)} :
                /\ m.thrown = ERR_HTTP_HEADERS_SENT
                /\ ResOf(m) = res /\ PromiseOf(m) = fetchResponse
      /\ \A a \in WriteHeadArgs :
           \E m \in {writeHead(msg, a[1], a[2], a[3])} :
             /\ m.thrown = ERR_HTTP_HEADERS_SENT
             /\ ResOf(m) = res /\ PromiseOf(m) = fetchResponse

\* C8 happens: a header-mutating call was refused after the response resolved
\* with the reason phrase and a header given to writeHead.
C8_Witness ==
  /\ lastError = ERR_HTTP_HEADERS_SENT
  /\ fetchResponse.promise = "fulfilled"
  /\ fetchResponse.response.statusText = Str(<<72, 105>>)
  /\ fetchResponse.response.headers # <<>>

\* C9: while the headers are mutable, writeHead with a status code outside
\* [100, 999], whatever its magnitude, fails with
\* ERR_HTTP_INVALID_STATUS_CODE and changes nothing.  The code does not
\* keep this: the range is checked after `statusCode |= 0`.
C9_OutOfRangeStatusRefused ==
  res.header = Null =>
    \E msg \in {Msg} :
      \A s \in StatusArgs :
        ~InStatusRange(s) =>
          \E m \in {writeHead(msg, s, Undefined, Undefined)} :
            /\ m.thrown = ERR_HTTP_INVALID_STATUS_CODE
            /\ ResOf(m) = res /\ HistOf(m) = hist

\* C10: once end has returned, fetchResponse is resolved, with one response
\* value, and that response's body, if it has one, is closed.
C10_EndResolvesAndCloses ==
  res.finished =>
    /\ fetchResponse.promise = "fulfilled"
    /\ hist.resolves = 1 /\ hist.builds = 1
    /\ fetchResponse.response.body = "null" \/ stream.closed

\* C10 happens: two body writes, then end; the body holds both and is closed.
C10_Witness ==
  /\ res.finished /\ lastError = NoError
  /\ Len(bodyWrites) = 2
  /\ stream.closed /\ BodyBytes(stream.queue) = Flatten(bodyWrites)

\* C11: end on a message that had no body write leaves fetchResponse resolved
\* with a body that produces no byte and is closed (or with no body at all).
\* The code does not keep this: see C16.
C11_EndWithoutWritesGivesEmptyBody ==
  (res.finished /\ bodyWrites = <<>>) =>
    /\ fetchResponse.promise = "fulfilled"
    /\ \/ fetchResponse.response.body = "null"
       \/ stream.closed /\ BodyBytes(stream.queue) = <<>>

\* C12: once the consumer has cancelled the body of an unfinished message, a
\* write of text or bytes and end still return without an error.  The code
\* does not keep this: the listeners of start() stay subscribed and use the
\* controller of the cancelled stream.
C12_ProducerUnaffectedByCancel ==
  (stream.cancelled /\ ~res.finished) =>
    \E msg \in {Msg} :
      /\ \A p \in Payloads :
           p[1] # NumberPayload =>
             \E m \in {write(msg, p[1], p[2])} : m.thrown = NoError
      /\ \E m \in {end(msg)} : m.thrown = NoError

\* C13: toFetchResponse of the response object of toReqRes returns the
\* message's fetchResponse, in every state of the message and as it is
\* (pending or fulfilled); of another object it throws the usage error.
C13_ToFetchResponse ==
  \E msg \in {Msg} :
    /\ \E c \in {toFetchResponse(ResponseObject(msg))} :
         c.thrown = NoError /\ c.value = fetchResponse
    /\ \E c \in {toFetchResponse(OtherObject)} :
         c.thrown = UsageError /\ c.value = Undefined
    /\ phase = "done" => lastError \in {NoError, UsageError}

\* C13 happens: the handler has returned toFetchResponse(res) of a message
\* whose response had resolved.
C13_Witness ==
  /\ phase = "done" /\ lastError = NoError
  /\ fetchResponse.promise = "fulfilled" /\ res.finished

\* C14: the header state only moves forward: a header block, once stored,
\* stays as it is; finished never returns to false; and a finished message
\* has its header block stored and its headers-sent event emitted.
C14_HeaderStateMovesForward ==
  /\ [](res.finished => (res.header # Null /\ hist.headersSentEvents = 1))
  /\ [][ /\ res.header # Null => res'.header = res.header
         /\ res.finished => res'.finished ]_vars

\* C14 happens: a message went from OPEN to FINISHED by end alone.
C14_Witness ==
  /\ res.finished /\ res.header # Null
  /\ res.statusMessage = Str(<<79, 75>>) /\ res.entries = 1
  /\ hist.headersSentEvents = 1

\* C15: the body is closed at most once, and once the message is finished no
\* data-written event, whatever it carries, adds a chunk to the body or to
\* the buffer of initial chunks, nor closes the body again.
C15_NothingEnqueuedAfterFinish ==
  \E msg \in {Msg} :
    /\ hist.closes <= 1
    /\ stream.closed <=> hist.closes = 1
    /\ res.finished =>
         \A d \in {Str(<<104, 233>>), Bin(<<0, 255>>)} :
           \E m \in {emitDataWritten(msg, [index |-> res.entries, data |-> d,
                                           encoding |-> "undefined"])} :
             /\ m.thrown = NoError
             /\ m.queue = stream.queue
             /\ m.initialDataChunks = bridge.initialDataChunks
             /\ m.closes = hist.closes

\* C15 happens: an informational write after end produced an entry that the
\* closed body did not take.
C15_Witness ==
  /\ res.finished /\ stream.closed /\ hist.closes = 1
  /\ hist.informational = 1
  /\ res.entries = Len(stream.queue) + 1

\* C16: every chunk of the resolved response's body is the bytes of a body
\* write (or empty): no byte of a status line, a header block or an
\* informational response is in the body.  The code does not keep this: the
\* entry of an informational write takes part in the index-0 rule.
C16_BodyHoldsOnlyBodyWrites ==
  (fetchResponse.promise = "fulfilled" /\ fetchResponse.response.body = "stream") =>
    \A i \in 1..Len(stream.queue) :
      \/ stream.queue[i].v = <<>>
      \/ \E j \in 1..Len(bodyWrites) : stream.queue[i].v = bodyWrites[j]

\* C17: while the headers are mutable, a writeHead with a status code of
\* [100, 999] and no reason phrase that succeeds resolves the response with
\* the phrase the table has for the code, or "unknown".  The code does not
\* keep this: `||=` keeps the statusMessage an earlier call left.
C17_DefaultReasonPhrase ==
  res.header = Null =>
    \E msg \in {Msg} :
      \A s \in StatusArgs :
        InStatusRange(s) =>
          \E m \in {writeHead(msg, s, Undefined, Undefined)} :
            m.thrown = NoError =>
              /\ m.statusMessage = m.response.statusText
              /\ m.response.statusText =
                   (IF STATUS_CODES(s.lo) = Undefined THEN Unknown ELSE STATUS_CODES(s.lo))

\* C18: while the headers are mutable, a writeHead that fails with
\* ERR_INVALID_CHAR or ERR_INVALID_ARG_VALUE leaves statusCode, statusMessage
\* and the header collection as they were and the headers mutable.  The code
\* does not keep this: the fields are assigned before the checks that fail.
C18_FailedWriteHeadChangesNothing ==
  res.header = Null =>
    \E msg \in {Msg} :
      \A a \in WriteHeadArgs :
        \E m \in {writeHead(msg, a[1], a[2], a[3])} :
          m.thrown \in {ERR_INVALID_CHAR, ERR_INVALID_ARG_VALUE} =>
            /\ m.statusCode = res.statusCode
            /\ m.statusMessage = res.statusMessage
            /\ m.outHeaders = res.outHeaders
            /\ m.header = Null /\ m.headersSentEvents = hist.headersSentEvents

\* C19: the response object toReqRes returns for a HEAD request expects no
\* body, and a first write on it resolves the response with a null body.  The
\* code does not keep this: the response is constructed before the incoming
\* message is given its method.
C19_HeadResponseHasNoBody ==
  \E msg \in {Msg} :
    \A method \in Methods :
      (method = Str(<<72, 69, 65, 68>>) /\ msg = toReqRes(method)) =>
        /\ ~res.hasBody
        /\ \A p \in Payloads :
             \E m \in {write(msg, p[1], p[2])} :
               m.thrown = NoError =>
                 (m.promise = "fulfilled" /\ m.response.body = "null")

====
